---- MODULE Spec2Model ----
(***************************************************************************)
(* klick2ardour.py: converts a klick tempomap (text, one entry per line)   *)
(* into the TempoMap and marker Locations of an ardour session document.   *)
(*                                                                         *)
(* Abstractions of this model:                                             *)
(*  - a line of text is its sequence of whitespace-separated lexemes plus  *)
(*    the amount of leading whitespace; the regular expressions are        *)
(*    matched lexeme by lexeme;                                            *)
(*  - Python floats are exact rationals <<numerator, denominator>>;        *)
(*  - a logarithmic mean (a - b) / (ln a - ln b) is kept as the term       *)
(*    <<"logmean", a, b>>: only its domain errors are computed;            *)
(*  - the session document is its id-counter and sample-rate attributes    *)
(*    and the children of its TempoMap and Locations sections.             *)
(***************************************************************************)
EXTENDS Integers, Sequences, FiniteSets, TLC

\* longest tempomap file, in lines
MaxLines == 2
\* how many times the program is run on the same two files
MaxRuns == 2

----------------------------------------------------------------------------
\* Rational arithmetic standing for Python's float arithmetic.

Abs(n) == IF n < 0 THEN -n ELSE n

RECURSIVE GCD(_, _)
GCD(a, b) == IF b = 0 THEN a ELSE GCD(b, a % b)

\* n/d in lowest terms with a positive denominator (d # 0)
Norm(n, d) ==
    LET g == GCD(Abs(n), Abs(d))
        s == IF d < 0 THEN -1 ELSE 1
    IN  <<(s * n) \div g, (s * d) \div g>>

QInt(n)    == <<n, 1>>
\* sums and differences over the least common denominator
QAdd(x, y) ==
    LET g == GCD(x[2], y[2])
    IN  Norm(x[1] * (y[2] \div g) + y[1] * (x[2] \div g), (x[2] \div g) * y[2])
QSub(x, y) == QAdd(x, <<-y[1], y[2]>>)
QMul(x, y) == Norm(x[1] * y[1], x[2] * y[2])
QDiv(x, y) == Norm(x[1] * y[2], x[2] * y[1])
QZero      == QInt(0)
QIsZero(x) == x[1] = 0

----------------------------------------------------------------------------
\* Text: numerals, lexemes, lines.

\* a matched numeral "ip" or "ip.fp"; fp = -1 when there is no fraction
Numeral(ip, fp) == [ip |-> ip, fp |-> fp]
\* a regex group that did not take part in the match (Python's None)
NoneNum == Numeral(-1, -1)
NoneStr == ""

IsDigits(n) == n.ip >= 0 /\ n.fp = -1

Tok(k, s, x, y) == [k |-> k, s |-> s, x |-> x, y |-> y]
Label(s)     == Tok("label", s, NoneNum, NoneNum)                 \* s:
Num(i)       == Tok("num", "", Numeral(i, -1), NoneNum)           \* 120
Dec(i, f)    == Tok("num", "", Numeral(i, f), NoneNum)            \* 120.5
Meter(b, d)  == Tok("meter", "", Numeral(b, -1), Numeral(d, -1))  \* 3/4
Ramp(a, b)   == Tok("ramp", "", a.x, b.x)                         \* 140-160
Pattern      == Tok("pattern", "X.x.", NoneNum, NoneNum)
Comment      == Tok("comment", "#", NoneNum, NoneNum)
Word(s)      == Tok("word", s, NoneNum, NoneNum)

Line(indent, toks) == [indent |-> indent, toks |-> toks]

\* str.strip(): the text without its leading and trailing whitespace
strip(line) == Line(0, line.toks)

\* int(s) of a group of digits
int(n) == n.ip

\* float(s) of a numeral
float(n) == IF n.fp = -1 THEN QInt(n.ip) ELSE Norm(10 * n.ip + n.fp, 10)

----------------------------------------------------------------------------
\* class KlickTempomapReader

NoMatch == [matched |-> FALSE, label |-> NoneStr, bars |-> NoneNum,
            beats |-> NoneNum, denom |-> NoneNum, tempo |-> NoneNum,
            tempo2 |-> NoneNum]

\* KlickTempomapReader.regex: the groups of the match, or NoMatch
regex(line) ==
    LET t == line.toks
        n == Len(t)
        hasLabel == n >= 1 /\ t[1].k = "label"
        iBars == IF hasLabel THEN 2 ELSE 1
        barsOK == n >= iBars /\ t[iBars].k = "num" /\ IsDigits(t[iBars].x)
        iMeter == iBars + 1
        hasMeter == n >= iMeter /\ t[iMeter].k = "meter"
        iTempo == IF hasMeter THEN iMeter + 1 ELSE iMeter
        tempoOK == n >= iTempo /\ t[iTempo].k \in {"num", "ramp"}
        iPat == iTempo + 1
        hasPat == n >= iPat /\ t[iPat].k = "pattern"
        iVol == IF hasPat THEN iPat + 1 ELSE iPat
        \* the volume group is \d+(\.d+)? : a numeral with a fraction
        \* does not match it
        hasVol == n >= iVol /\ t[iVol].k = "num" /\ IsDigits(t[iVol].x)
        iCom == IF hasVol THEN iVol + 1 ELSE iVol
        hasCom == n >= iCom /\ t[iCom].k = "comment"
        iEnd == IF hasCom THEN iCom + 1 ELSE iCom
    IN  IF barsOK /\ tempoOK /\ n = iEnd - 1
        THEN [matched |-> TRUE,
              label   |-> IF hasLabel THEN t[1].s ELSE NoneStr,
              bars    |-> t[iBars].x,
              beats   |-> IF hasMeter THEN t[iMeter].x ELSE NoneNum,
              denom   |-> IF hasMeter THEN t[iMeter].y ELSE NoneNum,
              tempo   |-> t[iTempo].x,
              tempo2  |-> IF t[iTempo].k = "ramp" THEN t[iTempo].y ELSE NoneNum]
        ELSE NoMatch

\* KlickTempomapReader.regex_blank
regex_blank(line) ==
    line.toks = <<>> \/ (Len(line.toks) = 1 /\ line.toks[1].k = "comment")

\* a reader that skips every line it cannot parse
is_blank_or_unparsable(line) == regex_blank(line) \/ ~regex(line).matched

is_blank(line) == regex_blank(line)

\* maybe = lambda x, y: x if x else y   (a matched group is a non-empty string)
maybe(x, y) == IF x # NoneNum THEN x ELSE y

\* the entry parse_entry builds from a match
Entry(m) ==
    [label  |-> m.label,
     bars   |-> int(m.bars),
     beats  |-> int(maybe(m.beats, Numeral(4, -1))),
     denom  |-> int(maybe(m.denom, Numeral(4, -1))),
     tempo  |-> float(m.tempo),
     tempo2 |-> float(maybe(m.tempo2, Numeral(0, -1)))]

\* parse_entry: the entry, or sys.exit with the stripped line
parse_entry(line) ==
    LET m == regex(line)
    IN  IF ~m.matched
        THEN [exit |-> TRUE, msg |-> strip(line), entry |-> Entry(NoMatch)]
        ELSE [exit |-> FALSE, msg |-> Line(0, <<>>), entry |-> Entry(m)]

----------------------------------------------------------------------------
\* Values the converter computes with.

\* a float that was read or computed exactly
Float(q) == <<"float", q>>
\* (a - b) / (math.log(a) - math.log(b)) for 0 < a, 0 < b, a # b
LogMean(a, b) == <<"logmean", a, b>>

\* a frame count: the exact part plus the terms coef / logmean
Frames(q, ramps) == [q |-> q, ramps |-> ramps]
FramesAdd(f, g) == Frames(QAdd(f.q, g.q), f.ramps \o g.ramps)

\* the result of a call that may raise: the exception's name, or ""
Ok(v)      == [raised |-> "", value |-> v]
Raise(e, v) == [raised |-> e, value |-> v]

----------------------------------------------------------------------------
\* class ArdourTempomapWriter

\* ArdourTempomapWriter.__init__: the parsed tree and the two root attributes
Open(doc) ==
    [tree |-> doc, samplerate |-> doc.sample_rate, id_counter |-> doc.id_counter]

\* write_tempo: the TempoMap children after appending a Tempo element
write_tempo(node, bar, beat, tempo) ==
    Append(node, [tag              |-> "Tempo",
                  beats_per_minute |-> tempo,
                  movable          |-> IF bar # 0 /\ beat # 0 THEN "yes" ELSE "no",
                  note_type        |-> 4,
                  start            |-> <<bar + 1, beat + 1, 0>>])

\* write_meter: the TempoMap children after appending a Meter element
write_meter(node, bar, beats, denom) ==
    Append(node, [tag           |-> "Meter",
                  beats_per_bar |-> beats,
                  movable       |-> IF bar # 0 THEN "yes" ELSE "no",
                  note_type     |-> denom,
                  start         |-> <<bar + 1, 1, 0>>])

\* a write_marker that does not advance the id-counter
write_marker_same_id(w, frame, label) ==
    [w EXCEPT !.tree.Locations =
                  Append(@, [tag    |-> "Location",
                             name   |-> label,
                             start  |-> frame,
                             end    |-> frame,
                             flags  |-> "IsMark",
                             locked |-> "no",
                             id     |-> w.id_counter])]

\* write_marker: the writer after appending a marker Location
write_marker(w, frame, label) ==
    [w EXCEPT !.tree.Locations =
                  Append(@, [tag    |-> "Location",
                             name   |-> label,
                             start  |-> frame,
                             end    |-> frame,
                             flags  |-> "IsMark",
                             locked |-> "no",
                             id     |-> w.id_counter]),
              !.id_counter = @ + 1]

\* the logarithmic mean as Python evaluates it: math.log of a value that is
\* not positive raises ValueError, equal values divide by zero
log_mean(a, b) ==
    IF a[1] <= 0 \/ b[1] <= 0 THEN Raise("ValueError", QZero)
    ELSE IF a = b THEN Raise("ZeroDivisionError", QZero)
    ELSE Ok(LogMean(a, b))

\* entry_frames: the length of an entry in frames
entry_frames(w, entry) ==
    LET t == IF QIsZero(entry.tempo2) THEN Ok(Float(entry.tempo))
             ELSE log_mean(entry.tempo, entry.tempo2)
        beats240 == entry.bars * entry.beats * 240
    IN  IF t.raised # "" THEN Raise(t.raised, Frames(QZero, <<>>))
        ELSE IF entry.denom = 0 \/ (t.value[1] = "float" /\ QIsZero(t.value[2]))
             THEN Raise("ZeroDivisionError", Frames(QZero, <<>>))
        ELSE IF t.value[1] = "float"
             THEN Ok(Frames(Norm(beats240 * w.samplerate * t.value[2][2],
                                 t.value[2][1] * entry.denom), <<>>))
        ELSE Ok(Frames(QZero,
                       <<[coef |-> Norm(beats240 * w.samplerate, entry.denom),
                          over |-> t.value]>>))

\* average_tempo: the tempo of one beat of a gradual tempo change
average_tempo(entry, beat) ==
    LET d  == QSub(entry.tempo2, entry.tempo)
        n  == entry.bars * entry.beats
    IN  IF n = 0 THEN Raise("ZeroDivisionError", QZero)
        ELSE LET t1 == QAdd(entry.tempo, QDiv(QMul(d, QInt(beat)), QInt(n)))
                 t2 == QAdd(entry.tempo, QDiv(QMul(d, QInt(beat + 1)), QInt(n)))
             IN  log_mean(t1, t2)

\* a loop that writes one Tempo for every bar instead of every beat
RECURSIVE ramp_points_per_bar(_, _, _, _)
ramp_points_per_bar(node, state, entry, x) ==
    IF x >= entry.bars THEN Ok(node)
    ELSE LET t == average_tempo(entry, x * entry.beats)
         IN  IF t.raised # "" THEN Raise(t.raised, node)
             ELSE ramp_points_per_bar(write_tempo(node, state.bars + x, 0, t.value),
                                      state, entry, x + 1)

\* the loop of write_tempomap_entry over the beats x, x+1, ... of a gradual
\* tempo change: the TempoMap children, or the exception that ended it
RECURSIVE ramp_points(_, _, _, _)
ramp_points(node, state, entry, x) ==
    IF x >= entry.bars * entry.beats THEN Ok(node)
    ELSE LET t == average_tempo(entry, x)
         IN  IF t.raised # "" THEN Raise(t.raised, node)
             ELSE ramp_points(write_tempo(node, state.bars + x \div entry.beats,
                                          x % entry.beats, t.value),
                              state, entry, x + 1)

\* a writer that gives every entry a Meter
meter_changed_always(state, entry) == TRUE

\* the condition under which write_tempomap_entry writes a Meter
meter_changed(state, entry) ==
    <<entry.beats, entry.denom>> # <<state.beats, state.denom>>

\* write_tempomap_entry: the TempoMap children after the entry's points
write_tempomap_entry(node, state, entry) ==
    LET tempos ==
            IF entry.tempo # state.tempo /\ QIsZero(entry.tempo2)
            THEN Ok(write_tempo(node, state.bars, 0, Float(entry.tempo)))
            ELSE IF ~QIsZero(entry.tempo2)
            THEN ramp_points(node, state, entry, 0)
            ELSE Ok(node)
    IN  IF tempos.raised # "" THEN tempos
        ELSE IF meter_changed(state, entry)
        THEN Ok(write_meter(tempos.value, state.bars, entry.beats, entry.denom))
        ELSE tempos

\* the state before the first entry
state0 == [frames |-> Frames(QZero, <<>>), bars |-> 0, beats |-> 0, denom |-> 0,
           tempo |-> QZero]

\* a state that keeps the first tempo of a gradual tempo change
advance_keeps_tempo(state, entry, frames) ==
    [frames |-> FramesAdd(state.frames, frames),
     bars   |-> state.bars + entry.bars,
     beats  |-> entry.beats,
     denom  |-> entry.denom,
     tempo  |-> entry.tempo]

\* the state after an entry of the given length
advance(state, entry, frames) ==
    [frames |-> FramesAdd(state.frames, frames),
     bars   |-> state.bars + entry.bars,
     beats  |-> entry.beats,
     denom  |-> entry.denom,
     tempo  |-> IF QIsZero(entry.tempo2) THEN entry.tempo ELSE QZero]

\* a test that takes every Location whose flags begin with IsMark
is_marker_by_prefix(loc) == loc.flags \in {"IsMark", "IsMark,IsHidden"}

\* which Locations write removes
is_marker(loc) == loc.flags = "IsMark"

\* a write that leaves the old markers in place
write_begin_keeps_markers(w) ==
    IF "TempoMap" \notin w.tree.sections THEN Raise("ValueError", w)
    ELSE LET w1 == [w EXCEPT !.tree.TempoMap = <<>>]
         IN  IF "Locations" \notin w.tree.sections THEN Raise("TypeError", w1)
             ELSE Ok(w1)

\* write, up to the loop: the TempoMap replaced by an empty one, the markers
\* removed.  A document without the section raises.
write_begin(w) ==
    IF "TempoMap" \notin w.tree.sections THEN Raise("ValueError", w)
    ELSE LET w1 == [w EXCEPT !.tree.TempoMap = <<>>]
         IN  IF "Locations" \notin w.tree.sections THEN Raise("TypeError", w1)
             ELSE Ok([w1 EXCEPT !.tree.Locations =
                                    SelectSeq(@, LAMBDA x : ~is_marker(x))])

\* write, one turn of the loop: the writer and the state after the entry
write_entry(w, state, entry) ==
    LET pts == write_tempomap_entry(w.tree.TempoMap, state, entry)
        w1  == [w EXCEPT !.tree.TempoMap = pts.value]
        w2  == IF entry.label # NoneStr
               THEN write_marker(w1, state.frames, entry.label) ELSE w1
        len == entry_frames(w, entry)
    IN  IF pts.raised # "" THEN Raise(pts.raised, [w |-> w1, state |-> state])
        ELSE IF len.raised # "" THEN Raise(len.raised, [w |-> w2, state |-> state])
        ELSE Ok([w |-> w2, state |-> advance(state, entry, len.value)])

\* write, after the loop: the document that is written to the file
write_end(w) == [w.tree EXCEPT !.id_counter = w.id_counter]

\* write: the whole conversion of a tempomap on an opened document
RECURSIVE write_loop(_, _, _, _)
write_loop(w, state, tempomap, i) ==
    IF i > Len(tempomap) THEN Ok(write_end(w))
    ELSE LET r == write_entry(w, state, tempomap[i])
         IN  IF r.raised # "" THEN Raise(r.raised, w.tree)
             ELSE write_loop(r.value.w, r.value.state, tempomap, i + 1)

write(w, tempomap) ==
    LET b == write_begin(w)
    IN  IF b.raised # "" THEN Raise(b.raised, w.tree)
        ELSE write_loop(b.value, state0, tempomap, 1)

----------------------------------------------------------------------------
\* The inputs: tempomap lines, session documents, command lines.

SampleLines ==
    { Line(0, <<Label("A"), Num(4), Meter(3, 4), Num(120)>>),    \* A: 4 3/4 120
      Line(0, <<Num(8), Ramp(Num(140), Num(160))>>),             \* 8 140-160
      Line(0, <<Num(4), Num(120)>>),                             \* 4 120
      Line(0, <<Label("B"), Num(1), Num(120)>>),                 \* B: 1 120
      Line(1, <<Label("C"), Num(2), Meter(3, 4), Num(100),
                Pattern, Num(1), Comment>>),         \*  C: 2 3/4 100 X.x. 1 # c
      Line(0, <<Num(2), Dec(120, 5)>>),                          \* 2 120.5
      Line(0, <<Label("D"), Num(1), Ramp(Num(120), Num(60))>>),  \* D: 1 120-60
      Line(0, <<Num(4), Ramp(Num(120), Num(120))>>),             \* 4 120-120
      Line(0, <<Num(0), Num(120)>>),                             \* 0 120
      Line(0, <<Num(4), Meter(0, 4), Num(120)>>),                \* 4 0/4 120
      Line(0, <<Num(4), Meter(3, 0), Num(120)>>),                \* 4 3/0 120
      Line(0, <<Num(4), Num(0)>>),                               \* 4 0
      Line(0, <<Num(4), Ramp(Num(120), Num(0))>>),               \* 4 120-0
      Line(0, <<Num(2), Ramp(Num(0), Num(120))>>),               \* 2 0-120
      Line(1, <<Word("foo"), Word("bar"), Word("baz")>>),        \*  foo bar baz
      Line(0, <<Num(4), Num(120), Pattern, Dec(0, 5)>>),         \* 4 120 X.x. 0.5
      Line(0, <<Dec(4, 5), Num(120)>>),                          \* 4.5 120
      Line(0, <<>>),                                             \* (blank)
      Line(1, <<Comment>>) }                                     \*  # comment

Files == UNION { [1..n -> SampleLines] : n \in 0..MaxLines }

Location(name, start, flags, id) ==
    [tag |-> "Location", name |-> name, start |-> Frames(QInt(start), <<>>),
     end |-> Frames(QInt(start), <<>>), flags |-> flags, locked |-> "no",
     id |-> id]

Session(rate, counter, sections, tempos, locations) ==
    [sample_rate |-> rate, id_counter |-> counter, sections |-> sections,
     TempoMap |-> tempos, Locations |-> locations]

Sessions ==
    { \* a new session
      Session(48000, 10, {"TempoMap", "Locations"},
              write_meter(write_tempo(<<>>, 0, 0, Float(QInt(120))), 0, 4, 4),
              <<Location("session", 0, "IsSessionRange", 3)>>),
      \* a session without tempo points, markers or other locations
      Session(48000, 10, {"TempoMap", "Locations"}, <<>>, <<>>),
      \* a session that has markers and ranges
      Session(44100, 20, {"TempoMap", "Locations"},
              write_tempo(write_meter(write_tempo(<<>>, 0, 0, Float(QInt(90))),
                                      0, 6, 8), 2, 0, Float(QInt(70))),
              <<Location("Loop", 0, "IsAutoLoop", 5),
                Location("old", 1000, "IsMark", 7),
                Location("hidden", 2000, "IsMark,IsHidden", 8),
                Location("A", 3000, "IsMark", 9),
                Location("session", 0, "IsSessionRange", 6)>>),
      \* malformed sessions: a section is missing
      Session(48000, 10, {"Locations"}, <<>>,
              <<Location("old", 1000, "IsMark", 7)>>),
      Session(48000, 10, {"TempoMap"}, <<>>, <<>>) }

Usage == "Usage: klick2ardour.py <tempomap> <ardour-session-file>"

CommandLines ==
    { <<"klick2ardour.py", "tempomap", "session">>,
      <<"klick2ardour.py", "-h", "session">>,
      <<"klick2ardour.py", "tempomap">> }

----------------------------------------------------------------------------
\* The program.

VARIABLES
    argv,      \* sys.argv
    lines,     \* the tempomap file
    file,      \* the session file
    doc0,      \* the session file as it was before the first run
    run,       \* the number of this run of the program
    pc,        \* where the run is: "main", "read", "write", "loop",
               \* or ended: "done", "exit" (sys.exit), "raised" (exception)
    err,       \* what sys.exit printed or which exception ended the run
    lineno,    \* the line of the file read() is at
    tempomap,  \* the entries read so far
    writer,    \* the ArdourTempomapWriter, once constructed
    state,     \* write's state
    idx        \* the entry write's loop is at

vars == <<argv, lines, file, doc0, run, pc, err, lineno, tempomap, writer,
          state, idx>>

NoError  == [kind |-> "", text |-> "", line |-> Line(0, <<>>)]
NoWriter == [tree |-> "None"]

Init ==
    /\ argv \in CommandLines
    /\ lines \in Files
    /\ file \in Sessions
    /\ doc0 = file
    /\ run = 1
    /\ pc = "main"
    /\ err = NoError
    /\ lineno = 1
    /\ tempomap = <<>>
    /\ writer = NoWriter
    /\ state = state0
    /\ idx = 0

\* __main__: the usage check
Main ==
    /\ pc = "main"
    /\ IF Len(argv) # 3 \/ argv[2] \in {"-h", "--help"}
       THEN /\ pc' = "exit"
            /\ err' = [kind |-> "usage", text |-> Usage, line |-> Line(0, <<>>)]
       ELSE /\ pc' = "read"
            /\ err' = err
    /\ UNCHANGED <<argv, lines, file, doc0, run, lineno, tempomap, writer,
                   state, idx>>

\* read: one line of the file
ReadLine ==
    /\ pc = "read"
    /\ lineno <= Len(lines)
    /\ LET line == lines[lineno]
           r == parse_entry(line)
       IN  IF is_blank(line)
           THEN /\ lineno' = lineno + 1
                /\ UNCHANGED <<tempomap, pc, err>>
           ELSE IF r.exit
           THEN /\ pc' = "exit"
                /\ err' = [kind |-> "parse",
                           text |-> "couldn't parse tempomap entry:",
                           line |-> r.msg]
                /\ UNCHANGED <<tempomap, lineno>>
           ELSE /\ tempomap' = Append(tempomap, r.entry)
                /\ lineno' = lineno + 1
                /\ UNCHANGED <<pc, err>>
    /\ UNCHANGED <<argv, lines, file, doc0, run, writer, state, idx>>

\* __main__: read has returned, the writer is constructed
OpenSession ==
    /\ pc = "read"
    /\ lineno > Len(lines)
    /\ writer' = Open(file)
    /\ pc' = "write"
    /\ UNCHANGED <<argv, lines, file, doc0, run, err, lineno, tempomap, state,
                   idx>>

\* write: the old TempoMap and the old markers are removed
WriteBegin ==
    /\ pc = "write"
    /\ LET r == write_begin(writer)
       IN  /\ writer' = r.value
           /\ IF r.raised # ""
              THEN /\ pc' = "raised"
                   /\ err' = [kind |-> r.raised, text |-> "", line |-> Line(0, <<>>)]
                   /\ UNCHANGED <<state, idx>>
              ELSE /\ pc' = "loop"
                   /\ state' = state0
                   /\ idx' = 1
                   /\ err' = err
    /\ UNCHANGED <<argv, lines, file, doc0, run, lineno, tempomap>>

\* write: one entry of the tempomap
WriteEntry ==
    /\ pc = "loop"
    /\ idx <= Len(tempomap)
    /\ LET r == write_entry(writer, state, tempomap[idx])
       IN  /\ writer' = r.value.w
           /\ state' = r.value.state
           /\ IF r.raised # ""
              THEN /\ pc' = "raised"
                   /\ err' = [kind |-> r.raised, text |-> "", line |-> Line(0, <<>>)]
                   /\ idx' = idx
              ELSE /\ idx' = idx + 1
                   /\ UNCHANGED <<pc, err>>
    /\ UNCHANGED <<argv, lines, file, doc0, run, lineno, tempomap>>

\* write: the id-counter is stored and the tree is written to the file
WriteEnd ==
    /\ pc = "loop"
    /\ idx > Len(tempomap)
    /\ file' = write_end(writer)
    /\ writer' = [writer EXCEPT !.tree = write_end(writer)]
    /\ pc' = "done"
    /\ UNCHANGED <<argv, lines, doc0, run, err, lineno, tempomap, state, idx>>

\* the program is run again on the same tempomap and the session it wrote
Rerun ==
    /\ pc = "done"
    /\ run < MaxRuns
    /\ run' = run + 1
    /\ pc' = "main"
    /\ err' = NoError
    /\ lineno' = 1
    /\ tempomap' = <<>>
    /\ writer' = NoWriter
    /\ state' = state0
    /\ idx' = 0
    /\ UNCHANGED <<argv, lines, file, doc0>>

Next ==
    \/ Main
    \/ ReadLine
    \/ OpenSession
    \/ WriteBegin
    \/ WriteEntry
    \/ WriteEnd
    \/ Rerun

Spec == Init /\ [][Next]_vars

----------------------------------------------------------------------------
\* Vocabulary of the properties.

\* the Locations flagged as markers, by the flag's text
MarkersOf(doc) == SelectSeq(doc.Locations, LAMBDA x : x.flags = "IsMark")
OthersOf(doc)  == SelectSeq(doc.Locations, LAMBDA x : x.flags # "IsMark")

\* the entries that carry a label
Labelled(entries) == SelectSeq(entries, LAMBDA e : e.label # NoneStr)

\* the bars of the first i entries
RECURSIVE CumBars(_, _)
CumBars(entries, i) == IF i = 0 THEN 0 ELSE CumBars(entries, i - 1) + entries[i].bars

IsRamp(e) == ~QIsZero(e.tempo2)

\* the elements the step appends to the TempoMap
Added == SubSeq(writer'.tree.TempoMap, Len(writer.tree.TempoMap) + 1,
                Len(writer'.tree.TempoMap))

\* a step of write's loop that completes the entry at idx
EntryDone == pc = "loop" /\ pc' = "loop" /\ idx' = idx + 1

\* the step that writes the session file
Persist == pc = "loop" /\ pc' = "done"

\* the session without tempo points and markers
Strip(doc) == [doc EXCEPT !.TempoMap = <<>>, !.Locations = OthersOf(doc)]

\* the session a single run on the stripped original session writes
Reference == write(Open(Strip(doc0)), tempomap).value

----------------------------------------------------------------------------
\* C1: every Tempo and every Meter that write emits is marked non-movable
\* ("no") if and only if it starts at 1|1|0, the absolute start of the
\* timeline; a point anywhere else is movable ("yes").
C1_MovableIffNotAtStart ==
    pc = "done" =>
        \A i \in DOMAIN file.TempoMap :
            (file.TempoMap[i].movable = "no") <=> (file.TempoMap[i].start = <<1, 1, 0>>)

\* C2 as claimed: a run on a session that already has a TempoMap and markers
\* (the output of a previous run, for one) writes the same TempoMap and the
\* same markers, ids included, as a single run on the session without them.
C2_IdenticalWithIds ==
    pc = "done" =>
        /\ file.TempoMap = Reference.TempoMap
        /\ MarkersOf(file) = MarkersOf(Reference)

\* C2 as amended: the TempoMap is identical and so are the markers but for
\* their ids: each run allocates them from the id-counter the run before left
\* in the session, so the markers of run n carry the ids of the single run
\* plus (n - 1) * k, k being the number of labelled entries; the first run on
\* a session with old tempo points and markers gives the single run's ids.
C2_IdenticalUpToIds ==
    pc = "done" =>
        LET k == Len(Labelled(tempomap))
            shift == (run - 1) * k
        IN  /\ file.TempoMap = Reference.TempoMap
            /\ Len(MarkersOf(file)) = Len(MarkersOf(Reference))
            /\ \A i \in DOMAIN MarkersOf(file) :
                   MarkersOf(file)[i] =
                       [MarkersOf(Reference)[i] EXCEPT !.id = @ + shift]
            /\ OthersOf(file) = OthersOf(Reference)
            /\ file.id_counter = Reference.id_counter + shift

C2_Witness ==
    /\ pc = "done"
    /\ run = 2
    /\ Len(Labelled(tempomap)) >= 1
    /\ Len(MarkersOf(doc0)) >= 1
    /\ doc0.TempoMap # <<>>

\* C3: when write completes, the Locations are those of the session before
\* the run that are not flagged IsMark, unchanged and in their order, followed
\* by one new marker per labelled entry; no old marker is left.
C3_OnlyMarkersReplaced ==
    [][Persist =>
        LET kept == OthersOf(file)
            new  == file'.Locations
            labs == Labelled(tempomap)
        IN  /\ Len(new) = Len(kept) + Len(labs)
            /\ SubSeq(new, 1, Len(kept)) = kept
            /\ \A j \in 1..Len(labs) :
                   /\ new[Len(kept) + j].flags = "IsMark"
                   /\ new[Len(kept) + j].name = labs[j].label
                   /\ new[Len(kept) + j] \notin {file.Locations[i] :
                                                    i \in DOMAIN file.Locations}
       ]_vars

C3_Witness ==
    /\ pc = "done"
    /\ run = 1
    /\ Len(MarkersOf(doc0)) >= 2
    /\ Len(OthersOf(doc0)) >= 2
    /\ OthersOf(file) = OthersOf(doc0)
    /\ Len(Labelled(tempomap)) >= 1

\* C4: with c the id-counter of the session at the start of the run and k
\* the number of labelled entries, the markers written carry the ids c, c+1,
\* ..., c+k-1 in the order of the entries and the id-counter written is c+k,
\* above every id of the run.  All along the loop the markers written so far
\* carry c, c+1, ... and the writer's counter is the next id.
C4_SequentialIds ==
    [][pc = "loop" =>
        LET c    == file.id_counter
            made == MarkersOf(writer'.tree)
            labs == Labelled(tempomap)
            k    == Len(labs)
            new  == MarkersOf(file')
        IN  /\ \A j \in DOMAIN made :
                   made[j].id = c + j - 1 /\ made[j].name = labs[j].label
            /\ writer'.id_counter = c + Len(made)
            /\ pc' = "loop" => Len(made) = Len(Labelled(SubSeq(tempomap, 1, idx' - 1)))
            /\ Persist =>
                   /\ Len(new) = k
                   /\ \A j \in 1..k : new[j].id = c + j - 1 /\ new[j].name = labs[j].label
                   /\ file'.id_counter = c + k
                   /\ \A j \in 1..k : new[j].id < file'.id_counter
       ]_vars

C4_Witness ==
    /\ pc = "done"
    /\ Len(Labelled(tempomap)) = 2
    /\ MarkersOf(file)[1].id + 1 = MarkersOf(file)[2].id
    /\ file.id_counter = MarkersOf(file)[2].id + 1

\* the first line that matches neither grammar, 0 when there is none
Malformed(i) == ~regex_blank(lines[i]) /\ ~regex(lines[i]).matched
FirstMalformed ==
    IF \E i \in DOMAIN lines : Malformed(i)
    THEN CHOOSE i \in DOMAIN lines : Malformed(i) /\ \A j \in 1..(i - 1) : ~Malformed(j)
    ELSE 0

\* C5: when a line of the tempomap matches neither the entry grammar nor the
\* blank grammar, the run never reads past the first such line and ends there
\* by sys.exit with that line's text; the session is never opened or written.
C5_FirstMalformedLineIsFatal ==
    FirstMalformed # 0 =>
        /\ lineno <= FirstMalformed
        /\ pc \in {"main", "read", "exit"}
        /\ writer = NoWriter
        /\ file = doc0
        /\ pc = "exit" =>
              \/ err.kind = "usage"
              \/ /\ err.kind = "parse"
                 /\ lineno = FirstMalformed
                 /\ err.line.toks = lines[FirstMalformed].toks

C5_Witness ==
    /\ pc = "exit"
    /\ err.kind = "parse"
    /\ lineno = 2
    /\ Len(tempomap) = 1
    /\ err.line = strip(lines[2])

\* C6: every entry the reader returns has bars >= 1, beats >= 1, denom >= 1
\* and tempo > 0, and no line whose second tempo is zero is accepted.
C6_EntriesArePositive ==
    /\ \A i \in DOMAIN tempomap :
           /\ tempomap[i].bars >= 1
           /\ tempomap[i].beats >= 1
           /\ tempomap[i].denom >= 1
           /\ tempomap[i].tempo[1] > 0
    /\ \A i \in 1..(lineno - 1) :
           regex(lines[i]).tempo2 # NoneNum => float(regex(lines[i]).tempo2)[1] > 0

\* C7: a gradual tempo change whose two tempos are equal is converted without
\* a division by zero.
C7_EqualRampCompletes ==
    ~ /\ pc = "raised"
      /\ err.kind = "ZeroDivisionError"
      /\ IsRamp(tempomap[idx])
      /\ tempomap[idx].tempo = tempomap[idx].tempo2
      /\ tempomap[idx].bars >= 1 /\ tempomap[idx].beats >= 1
      /\ tempomap[idx].denom >= 1

\* the input of the example: A: 4 3/4 120, then 8 140-160
ExampleLines ==
    << Line(0, <<Label("A"), Num(4), Meter(3, 4), Num(120)>>),
       Line(0, <<Num(8), Ramp(Num(140), Num(160))>>) >>

\* the tempo points of gradual tempo changes in the session file
RampPoints ==
    SelectSeq(file.TempoMap,
              LAMBDA p : p.tag = "Tempo" /\ p.beats_per_minute[1] = "logmean")

\* C8 as claimed: in the example the second entry emits 8 * 3 = 24 tempo
\* points, from 5|1|0 to 12|3|0.
C8_Example24Points ==
    (lines = ExampleLines /\ pc = "done") =>
        /\ Len(RampPoints) = 24
        /\ RampPoints[1].start = <<5, 1, 0>>
        /\ RampPoints[Len(RampPoints)].start = <<12, 3, 0>>

\* C8 as amended: the second line names no meter, so it is in 4/4: the
\* entry emits 8 * 4 = 32 tempo points, one for every beat from 5|1|0 to
\* 12|4|0 (bars 5 to 12).
C8_Example32Points ==
    (lines = ExampleLines /\ pc = "done") =>
        /\ Len(RampPoints) = 32
        /\ \A x \in 0..31 :
               RampPoints[x + 1].start = <<5 + (x \div 4), 1 + (x % 4), 0>>

C8_Witness == lines = ExampleLines /\ pc = "done" /\ Len(file.TempoMap) > 24

\* C9: for entries with beats >= 1 and denom >= 1, an entry gets a Meter if
\* and only if its (beats, denom) differs from that of the entry before it
\* (the first entry always gets one); never a second Meter for the same
\* meter; the Meter is at beat 1 of the bar after the bars of the entries
\* before.
C9_MeterOnlyOnChange ==
    [][(EntryDone /\ \A i \in 1..idx : tempomap[i].beats >= 1 /\ tempomap[i].denom >= 1) =>
        LET e      == tempomap[idx]
            before == IF idx = 1 THEN <<0, 0>>
                      ELSE <<tempomap[idx - 1].beats, tempomap[idx - 1].denom>>
            meters == SelectSeq(Added, LAMBDA p : p.tag = "Meter")
        IN  /\ Len(meters) = IF <<e.beats, e.denom>> # before THEN 1 ELSE 0
            /\ idx = 1 => Len(meters) = 1
            /\ \A j \in DOMAIN meters :
                   /\ meters[j].start = <<CumBars(tempomap, idx - 1) + 1, 1, 0>>
                   /\ meters[j].beats_per_bar = e.beats
                   /\ meters[j].note_type = e.denom
       ]_vars

C9_Witness ==
    /\ pc = "done"
    /\ Len(tempomap) = 2
    /\ tempomap[1].beats = tempomap[2].beats
    /\ tempomap[1].denom = tempomap[2].denom
    /\ tempomap[1].bars >= 1
    /\ Len(SelectSeq(file.TempoMap, LAMBDA p : p.tag = "Meter")) = 1

\* C10: for entries with tempo > 0, a constant entry gets exactly one Tempo,
\* at beat 1 of the bar after the bars of the entries before and with its own
\* tempo, when it is the first entry, when the entry before it is a gradual
\* change (whatever its tempos) or when the entry before it is constant at
\* another tempo; it gets none when the entry before it is constant at the
\* same tempo.
C10_ConstantTempoPoint ==
    [][(/\ EntryDone
        /\ ~IsRamp(tempomap[idx])
        /\ \A i \in 1..idx : tempomap[i].tempo[1] > 0) =>
        LET e      == tempomap[idx]
            tempos == SelectSeq(Added, LAMBDA p : p.tag = "Tempo")
            first  == idx = 1
            change == \/ first
                      \/ IsRamp(tempomap[idx - 1])
                      \/ tempomap[idx - 1].tempo # e.tempo
        IN  /\ Len(tempos) = IF change THEN 1 ELSE 0
            /\ \A j \in DOMAIN tempos :
                   /\ tempos[j].start = <<CumBars(tempomap, idx - 1) + 1, 1, 0>>
                   /\ tempos[j].beats_per_minute = Float(e.tempo)
       ]_vars

C10_Witness ==
    /\ pc = "done"
    /\ Len(tempomap) = 2
    /\ IsRamp(tempomap[1])
    /\ ~IsRamp(tempomap[2])
    /\ tempomap[1].tempo = tempomap[2].tempo
    /\ \E i \in DOMAIN file.TempoMap :
           /\ file.TempoMap[i].tag = "Tempo"
           /\ file.TempoMap[i].beats_per_minute = Float(tempomap[2].tempo)

====
